---- MODULE Spec2Model ----
(***************************************************************************)
(* Options pricing API: the pricing engine (validation, the three pricing  *)
(* models, per-model failure isolation, comparison metrics) and the three  *)
(* request handlers that drive it.                                         *)
(*                                                                         *)
(* Numbers.  Python floats are modelled as fixed-point decimals:           *)
(*   - contract fields and the values inside a model: units of 1/FP;       *)
(*   - PricingResult.price and the prices in the metrics: units of 1e-7    *)
(*     ("ticks"), one digit below the 6 decimals the code rounds to;       *)
(*   - Greeks: units of 1e-6;  computation_time: units of 1e-6 s.          *)
(* math.exp / math.sqrt / np.random are library code, modelled by integer  *)
(* approximations (truncated series, integer square root, a small linear   *)
(* congruential generator).                                                *)
(*                                                                         *)
(* Assumption.  base_model.py declares OptionParameters with the defaulted *)
(* field dividend_yield (line 12) before the non-default field volatility  *)
(* (line 13); @dataclass rejects that with a TypeError when the module is  *)
(* imported.  The model takes the class as constructible with the fields   *)
(* in the declared order, and describes what the rest of the code does     *)
(* once it is.                                                             *)
(*                                                                         *)
(* Specifications.  Spec: requests served one at a time, and direct calls  *)
(* of the engine.  SpecMetrics: get_model_comparison_metrics on result     *)
(* lists.  SpecMC: requests that price by simulation, with a history of    *)
(* the evaluations.  SpecPar: _calculate_price run by concurrent workers,  *)
(* one step per statement that touches the process-wide generator.         *)
(***************************************************************************)
EXTENDS Integers, Sequences, FiniteSets, TLC

(* The records of base_model.py and of the requests *)

\* OptionParameters (lines 6-14)
OptionParametersRecords ==
    [spot_price : Int, strike_price : Int, time_to_expiry : Int,
     risk_free_rate : Int, dividend_yield : Int, volatility : Int,
     option_type : STRING]

\* the Greeks dictionary of a PricingResult
GreeksSetRecords == [delta : Int, gamma : Int, theta : Int, vega : Int, rho : Int]

\* PricingResult (lines 16-22); parameters holds the step or path count
PricingResultRecords ==
    [price : Int, computation_time : Int, model_name : STRING,
     greeks : GreeksSetRecords, parameters : Int]

\* a request: the endpoint, the contract and the endpoint's other arguments
RequestRecords ==
    [endpoint : STRING, params : OptionParametersRecords, model : STRING,
     binomial_steps : Int, monte_carlo_simulations : Int,
     spot_range : Seq(Int), time_range : Seq(Int), grid_size : Int]

VARIABLES
    np_random,   \* numpy's process-wide RandomState (np.random.seed / standard_normal)
    request,     \* the request being answered: endpoint and inputs
    response,    \* what the handler returned / raised
    invoked,     \* instrumentation: the model invocations of the handler, in order
    failed,      \* instrumentation: <<model, exception>> of each invocation that raised
    evalLog,     \* instrumentation: every MonteCarloModel._calculate_price evaluation
    mcSeen,      \* instrumentation: one earlier Monte Carlo evaluation, kept for comparison
    pc, wparams, wsims, wz, wprice   \* concurrent evaluation of _calculate_price (SpecPar)

vars == <<np_random, request, response, invoked, failed, evalLog, mcSeen,
          pc, wparams, wsims, wz, wprice>>

----------------------------------------------------------------------------
(* Bounds of the model *)

\* largest lattice step count a request carries (the code allows 10..1000)
MaxSteps == 2
\* largest simulation path count a request carries (the code allows 1000..100000)
MaxSimulations == 3
\* largest heatmap grid_size
MaxGrid == 2

(* Units *)
FP == 10^3
TicksPerFP == 10^4
TicksPerMicro == 10^1
ExpLimit == (3 * FP) \div 2
RngMod == 2^4

(* Program constants *)
SEED == 42

----------------------------------------------------------------------------
(* Library arithmetic *)

Max(a, b) == IF a >= b THEN a ELSE b
Min(a, b) == IF a <= b THEN a ELSE b
Abs(a) == IF a >= 0 THEN a ELSE -a

RECURSIVE ISqrtSearch(_, _, _)
ISqrtSearch(n, lo, hi) ==
    IF lo >= hi THEN lo
    ELSE LET mid == (lo + hi + 1) \div 2
         IN  IF mid * mid <= n THEN ISqrtSearch(n, mid, hi)
             ELSE ISqrtSearch(n, lo, mid - 1)

\* math.sqrt of a value given in units of 1e-6, result in units of 1/FP (x >= 0)
math_sqrt(micro) == ISqrtSearch(micro, 0, Min(micro, 46340))

\* math.exp / np.exp on units of 1/FP; the fixed-point range saturates at
\* exp(+-ExpLimit/FP) where a float saturates at inf / 0
math_exp(x) ==
    LET y == Max(-ExpLimit, Min(ExpLimit, x))
        h == y \div 2
        t == FP + h + (h * h) \div (2 * FP) + (((h * h) \div FP) * h) \div (6 * FP)
    IN  (t * t) \div FP

\* str.lower() on the option_type strings of the model
Lower(s) ==
    CASE s = "CALL" -> "call"
      [] s = "Put"  -> "put"
      [] OTHER      -> s

\* round(x, d) on a value held in finer units: the nearest multiple of `unit`,
\* ties to even (Python rounds half to even)
RoundHalfEven(x, unit) ==
    LET q == x \div unit
        r == x % unit
    IN  IF 2 * r < unit THEN q * unit
        ELSE IF 2 * r > unit THEN (q + 1) * unit
        ELSE IF q % 2 = 0 THEN q * unit ELSE (q + 1) * unit

RECURSIVE SumSeq(_)
SumSeq(s) == IF s = <<>> THEN 0 ELSE Head(s) + SumSeq(Tail(s))

----------------------------------------------------------------------------
(* base_model.py *)

OptionParameters(S, K, T, r, q, sigma, type) ==
    [spot_price |-> S, strike_price |-> K, time_to_expiry |-> T,
     risk_free_rate |-> r, dividend_yield |-> q, volatility |-> sigma,
     option_type |-> type]

PricingResult(price, time, name, greeks, parameters) ==
    [price |-> price, computation_time |-> time, model_name |-> name,
     greeks |-> greeks, parameters |-> parameters]

GreeksSet(delta, gamma, theta, vega, rho) ==
    [delta |-> delta, gamma |-> gamma, theta |-> theta, vega |-> vega, rho |-> rho]

NoGreeks == GreeksSet(0, 0, 0, 0, 0)
NoResult == PricingResult(0, 0, "", NoGreeks, 0)

----------------------------------------------------------------------------
(* pricing_engine.py: validate_parameters *)

Msg(cond, text) == IF cond THEN <<text>> ELSE <<>>

\* validate_parameters with the expiry test written "< 0"
validate_parameters_expiry_lt(params) ==
       Msg(params.spot_price <= 0, "Spot price must be positive")
    \o Msg(params.strike_price <= 0, "Strike price must be positive")
    \o Msg(params.time_to_expiry < 0, "Time to expiry must be positive")
    \o Msg(params.volatility <= 0, "Volatility must be positive")
    \o Msg(Lower(params.option_type) \notin {"call", "put"},
           "Option type must be 'call' or 'put'")
    \o Msg(params.time_to_expiry > 10 * FP,
           "Time to expiry seems unusually long (>10 years)")
    \o Msg(params.volatility > 5 * FP, "Volatility seems unusually high (>500%)")

validate_parameters(params) ==
       Msg(params.spot_price <= 0, "Spot price must be positive")
    \o Msg(params.strike_price <= 0, "Strike price must be positive")
    \o Msg(params.time_to_expiry <= 0, "Time to expiry must be positive")
    \o Msg(params.volatility <= 0, "Volatility must be positive")
    \o Msg(Lower(params.option_type) \notin {"call", "put"},
           "Option type must be 'call' or 'put'")
    \o Msg(params.time_to_expiry > 10 * FP,
           "Time to expiry seems unusually long (>10 years)")
    \o Msg(params.volatility > 5 * FP, "Volatility seems unusually high (>500%)")

----------------------------------------------------------------------------
(* Outcomes of a call: exc = "none" when it returned, else the exception class *)

Returned(o) == o.exc = "none"

\* the first exception of a sequence of outcomes evaluated in order
RECURSIVE FirstExc(_)
FirstExc(outcomes) ==
    IF outcomes = <<>> THEN "none"
    ELSE IF Head(outcomes).exc # "none" THEN Head(outcomes).exc
    ELSE FirstExc(Tail(outcomes))

----------------------------------------------------------------------------
(* black_scholes.py *)

\* _calculate_price_and_greeks: the exception line 36 raises on the inputs the
\* formulas are undefined for, "none" when the pair (price, greeks) is returned.
\* The pair itself never leaves the model: both callers fail to unpack it.
BlackScholes_calculate_price_and_greeks(params) ==
    LET S == params.spot_price
        K == params.strike_price
        T == params.time_to_expiry
        sigma == params.volatility
    IN  IF K = 0 THEN "ZeroDivisionError"                       \* S / K
        ELSE IF S = 0 \/ ((S < 0) # (K < 0)) THEN "ValueError"  \* math.log(S / K)
        ELSE IF T < 0 THEN "ValueError"                         \* math.sqrt(T)
        ELSE IF sigma = 0 \/ T = 0 THEN "ZeroDivisionError"     \* / (sigma * sqrt(T))
        ELSE "none"

\* math.log on a positive value in units of 1/FP, result in units of 1/FP:
\* halvings and doublings into [1, 2), then the series of 2 * atanh
RECURSIVE math_log(_)
math_log(x) ==
    IF x >= 2 * FP THEN math_log(x \div 2) + 693
    ELSE IF x < FP THEN math_log(2 * x) - 693
    ELSE LET z == ((x - FP) * FP) \div (x + FP)
             z3 == (((z * z) \div FP) * z) \div FP
         IN  2 * (z + z3 \div 3)

\* norm.cdf for x >= 0 (units of 1/FP): the values at 0, 0.5, .., 3 joined by
\* straight lines, 1 beyond
NormCdfTable == <<500, 691, 841, 933, 977, 994, 999>>
NormCdfUpper(x) ==
    IF x >= 3 * FP THEN FP
    ELSE NormCdfTable[(x \div 500) + 1]
           + (((IF x \div 500 = 5 THEN 999 ELSE NormCdfTable[(x \div 500) + 2])
                 - NormCdfTable[(x \div 500) + 1]) * (x % 500)) \div 500

\* norm.cdf: the lower half is the complement of the upper half
norm_cdf(x) == IF x >= 0 THEN NormCdfUpper(x) ELSE FP - NormCdfUpper(-x)

\* line 36: d1 (units of 1/FP), for S, K, T, sigma > 0
BlackScholes_d1(params) ==
    ((math_log((params.spot_price * FP) \div params.strike_price)
        + ((params.risk_free_rate - params.dividend_yield
              + ((params.volatility * params.volatility) \div FP) \div 2)
           * params.time_to_expiry) \div FP) * FP)
      \div ((params.volatility * math_sqrt(params.time_to_expiry * FP)) \div FP)

\* line 37: d2
BlackScholes_d2(params) ==
    BlackScholes_d1(params)
      - (params.volatility * math_sqrt(params.time_to_expiry * FP)) \div FP

\* S * exp(-q * T) and K * exp(-r * T) (units of 1/FP)
DiscountedSpot(params) ==
    (params.spot_price
       * math_exp((-(params.dividend_yield * params.time_to_expiry)) \div FP)) \div FP
DiscountedStrike(params) ==
    (params.strike_price
       * math_exp((-(params.risk_free_rate * params.time_to_expiry)) \div FP)) \div FP

\* the price with d1 and d2 exchanged in the put branch
BlackScholes_price_put_exchanged(params) ==
    IF Lower(params.option_type) = "call"
    THEN (DiscountedSpot(params) * norm_cdf(BlackScholes_d1(params))
            - DiscountedStrike(params) * norm_cdf(BlackScholes_d2(params)))
         * TicksPerMicro
    ELSE (DiscountedStrike(params) * norm_cdf(-BlackScholes_d1(params))
            - DiscountedSpot(params) * norm_cdf(-BlackScholes_d2(params)))
         * TicksPerMicro

\* lines 40-45: the price (ticks) _calculate_price_and_greeks puts in its pair
BlackScholes_price(params) ==
    IF Lower(params.option_type) = "call"
    THEN (DiscountedSpot(params) * norm_cdf(BlackScholes_d1(params))
            - DiscountedStrike(params) * norm_cdf(BlackScholes_d2(params)))
         * TicksPerMicro
    ELSE (DiscountedStrike(params) * norm_cdf(-BlackScholes_d2(params))
            - DiscountedSpot(params) * norm_cdf(-BlackScholes_d1(params)))
         * TicksPerMicro

\* calculate: _time_calculation returns the pair (result, computation_time) with
\* result = (price, greeks); line 10 unpacks that pair into three names
BlackScholes_calculate(params, time) ==
    LET e == BlackScholes_calculate_price_and_greeks(params)
    IN  IF e # "none" THEN [exc |-> e, result |-> NoResult]
        ELSE [exc |-> "ValueError", result |-> NoResult]

\* calculate_greeks: line 23 unpacks the pair (price, greeks) into three names
BlackScholes_calculate_greeks(params) ==
    LET e == BlackScholes_calculate_price_and_greeks(params)
    IN  IF e # "none" THEN [greeks |-> NoGreeks, exc |-> e]
        ELSE [greeks |-> NoGreeks, exc |-> "ValueError"]

----------------------------------------------------------------------------
(* Finite-difference bumps shared by binomial_tree.py and monte_carlo.py *)

\* dt = 1/365
DT == FP \div 365
\* dv = dr = 0.01
DV == FP \div 100

BumpSpot(params) == params.spot_price \div 100      \* dS = spot_price * 0.01
ParamsUp(params) == [params EXCEPT !.spot_price = @ + BumpSpot(params)]
ParamsDown(params) == [params EXCEPT !.spot_price = @ - BumpSpot(params)]
ParamsTheta(params) ==
    [params EXCEPT !.time_to_expiry = Max(params.time_to_expiry - DT, DT)]
ParamsVega(params) == [params EXCEPT !.volatility = @ + DV]
ParamsRho(params) == [params EXCEPT !.risk_free_rate = @ + DV]

(* The objects of _calculate_greeks_finite_diff.  heap is the sequence of the  *)
(* OptionParameters objects alive during the call; heap[1] is the caller's    *)
(* object, and a name of the method holds an index into heap.                 *)

\* OptionParameters(**params.__dict__): a new object with the fields of heap[src]
copy_params(heap, src) == Append(heap, heap[src])

\* the bumped name bound to the caller's own object instead of the new one
constructed_alias(heap) == 1

\* the reference the constructor call returns: the object just made
constructed(heap) == Len(heap)

\* obj.field = value
setattr(heap, ref, field, value) == [heap EXCEPT ![ref][field] = value]

\* lines 79-82 (binomial) / 68-71 (Monte Carlo): params_up and params_down are
\* made, then shifted by dS = params.spot_price * 0.01, read before the copies
SpotBumped(heap, up, down, dS) ==
    setattr(setattr(heap, up, "spot_price", heap[up].spot_price + dS),
            down, "spot_price", heap[down].spot_price - dS)

HeapAfterSpot(params) ==
    SpotBumped(copy_params(copy_params(<<params>>, 1), 1),
               constructed(copy_params(<<params>>, 1)),
               constructed(copy_params(copy_params(<<params>>, 1), 1)),
               BumpSpot(params))

RefUp(params) == constructed(copy_params(<<params>>, 1))
RefDown(params) == constructed(copy_params(copy_params(<<params>>, 1), 1))

\* params_theta with the time lowered by dt and no floor
ThetaBumped_unclamped(heap, ref) ==
    setattr(heap, ref, "time_to_expiry", heap[1].time_to_expiry - DT)

\* lines 93-94 / 82-83: params_theta; the time is read from params at that point
ThetaBumped(heap, ref) ==
    setattr(heap, ref, "time_to_expiry", Max(heap[1].time_to_expiry - DT, DT))

ThetaMade(heap) ==
    ThetaBumped(copy_params(heap, 1), constructed(copy_params(heap, 1)))

HeapAfterTheta(params) == ThetaMade(HeapAfterSpot(params))

RefTheta(params) == constructed(copy_params(HeapAfterSpot(params), 1))

\* lines 100-101 / 89-90: params_vega.volatility += dv
VegaBumped(heap, ref) == setattr(heap, ref, "volatility", heap[ref].volatility + DV)

VegaMade(heap) ==
    VegaBumped(copy_params(heap, 1), constructed(copy_params(heap, 1)))

HeapAfterVega(params) == VegaMade(HeapAfterTheta(params))

RefVega(params) == constructed(copy_params(HeapAfterTheta(params), 1))

\* lines 107-108 / 96-97: params_rho.risk_free_rate += dr
RhoBumped(heap, ref) ==
    setattr(heap, ref, "risk_free_rate", heap[ref].risk_free_rate + DV)

RhoMade(heap) ==
    RhoBumped(copy_params(heap, 1), constructed(copy_params(heap, 1)))

HeapAfterRho(params) == RhoMade(HeapAfterVega(params))

RefRho(params) == constructed(copy_params(HeapAfterVega(params), 1))

\* the contracts the six price evaluations of the method are handed, each read
\* when its evaluation starts: base, up, down, theta, vega, rho
FiniteDiffContracts(params) ==
    << params,
       HeapAfterSpot(params)[RefUp(params)],
       HeapAfterSpot(params)[RefDown(params)],
       HeapAfterTheta(params)[RefTheta(params)],
       HeapAfterVega(params)[RefVega(params)],
       HeapAfterRho(params)[RefRho(params)] >>

\* the caller's object when the method returns
ParamsAfterGreeks(params) == HeapAfterRho(params)[1]

\* the five Greeks from the six prices (prices in ticks, Greeks in 1e-6);
\* the quotients are taken in two stages to stay within the integer range
FiniteDifferences(params, base, up, down, theta, vega, rho) ==
    LET dS == BumpSpot(params)
    IN  GreeksSet((((up - down) * 10) \div (2 * dS)) * 10,
                  ((((up - 2 * base + down) \div dS) * FP) \div dS) * 100,
                  (theta - base) \div TicksPerMicro,
                  (vega - base) \div (100 * TicksPerMicro),
                  (rho - base) \div (100 * TicksPerMicro))

----------------------------------------------------------------------------
(* binomial_tree.py *)

RECURSIVE Pow(_, _, _)
Pow(x, base, n) == IF n <= 0 THEN x ELSE Pow((x * base) \div FP, base, n - 1)

RECURSIVE BackwardInduction(_, _, _, _)
BackwardInduction(values, i, p, discount) ==
    IF i < 0 THEN values
    ELSE BackwardInduction(
             [j \in 0..i |->
                 (discount * ((p * values[j] + (FP - p) * values[j + 1]) \div FP))
                     \div FP],
             i - 1, p, discount)

\* _calculate_price (steps >= 0)
BinomialTree_calculate_price(params, steps) ==
    LET S == params.spot_price
        K == params.strike_price
        T == params.time_to_expiry
        r == params.risk_free_rate
        q == params.dividend_yield
        sigma == params.volatility
    IN  IF steps = 0 THEN [price |-> 0, exc |-> "ZeroDivisionError"]      \* T / steps
        ELSE IF T < 0 THEN [price |-> 0, exc |-> "ValueError"]            \* math.sqrt(dt)
        ELSE IF sigma = 0 \/ T = 0 THEN [price |-> 0, exc |-> "ZeroDivisionError"]  \* u - d = 0
        ELSE
          LET dtMicro == (T * FP) \div steps
              u == math_exp((sigma * math_sqrt(dtMicro)) \div FP)
              d == (FP * FP) \div u
              p == ((math_exp(((r - q) * dtMicro) \div (FP * FP)) - d) * FP) \div (u - d)
              stock(j) == Pow(Pow(S, u, steps - j), d, j)
              terminal == [j \in 0..steps |->
                             IF Lower(params.option_type) = "call"
                             THEN Max(0, stock(j) - K)
                             ELSE Max(0, K - stock(j))]
              discount == math_exp((-(r * dtMicro)) \div (FP * FP))
              option_values == BackwardInduction(terminal, steps - 1, p, discount)
          IN  [price |-> option_values[0] * TicksPerFP, exc |-> "none"]

\* lines 86-118: the Greeks from the six price evaluations, or the first
\* exception among them
GreeksFromPrices(params, prices) ==
    IF FirstExc(prices) # "none" THEN [greeks |-> NoGreeks, exc |-> FirstExc(prices)]
    ELSE [greeks |-> FiniteDifferences(params, prices[1].price, prices[2].price,
                         prices[3].price, prices[4].price, prices[5].price,
                         prices[6].price),
          exc |-> "none"]

\* _calculate_greeks_finite_diff: base, up, down, theta, vega, rho
BinomialTree_calculate_greeks_finite_diff(params, steps) ==
    GreeksFromPrices(params,
        [i \in 1..6 |->
            BinomialTree_calculate_price(FiniteDiffContracts(params)[i], steps)])

\* calculate_greeks
BinomialTree_calculate_greeks(params, steps) ==
    BinomialTree_calculate_greeks_finite_diff(params, steps)

\* lines 17-23 of calculate: the PricingResult from the timed price and the Greeks
BinomialTree_result(timed, g, steps, time) ==
    IF ~Returned(timed) THEN [exc |-> timed.exc, result |-> NoResult]
    ELSE IF ~Returned(g) THEN [exc |-> g.exc, result |-> NoResult]
    ELSE [exc |-> "none",
          result |-> PricingResult(timed.price, time, "Binomial Tree", g.greeks, steps)]

\* the caller's object after calculate: the Greeks method is reached when the
\* timed price returned
BinomialTree_params_after(params, steps) ==
    IF Returned(BinomialTree_calculate_price(params, steps))
    THEN ParamsAfterGreeks(params)
    ELSE params

\* calculate: the timed price, then the Greeks
BinomialTree_calculate(params, steps, time) ==
    BinomialTree_result(BinomialTree_calculate_price(params, steps),
                        BinomialTree_calculate_greeks(params, steps), steps, time)

----------------------------------------------------------------------------
(* numpy's global random state *)

\* np.random.seed(seed): the state a seed determines
np_random_seed(seed) == seed % RngMod

RngNext(state) == (5 * state + 3) % RngMod

\* one standard-normal variate (units of 1/FP) read off a generator state
Normal(state) == ((state % 7) - 3) * (FP \div 2)

\* np.random.standard_normal(n): n variates drawn from `state`, and the state left
RECURSIVE standard_normal(_, _)
standard_normal(state, n) ==
    IF n <= 0 THEN [z |-> <<>>, state |-> state]
    ELSE LET s1 == RngNext(state)
             rest == standard_normal(s1, n - 1)
         IN  [z |-> <<Normal(s1)>> \o rest.z, state |-> rest.state]

----------------------------------------------------------------------------
(* monte_carlo.py *)

\* lines 44-54: the price (ticks) from the draws z
MonteCarlo_price_from_draws(params, simulations, z) ==
    LET S == params.spot_price
        K == params.strike_price
        T == params.time_to_expiry
        r == params.risk_free_rate
        q == params.dividend_yield
        sigma == params.volatility
        drift == ((r - q - ((sigma * sigma) \div FP) \div 2) * T) \div FP
        volT == (sigma * math_sqrt(T * FP)) \div FP
        ST(i) == (S * math_exp(drift + (volT * z[i]) \div FP)) \div FP
        payoffs == [i \in 1..simulations |->
                       IF Lower(params.option_type) = "call"
                       THEN Max(0, ST(i) - K)
                       ELSE Max(0, K - ST(i))]
    IN  (math_exp((-(r * T)) \div FP) * SumSeq(payoffs) * (TicksPerFP \div FP))
            \div simulations

\* lines 44-56 of _calculate_price: the evaluation completed on the draws
MonteCarlo_priced(params, simulations, draw, price) ==
    [price |-> price, exc |-> "none", rng |-> draw.state,
     evals |-> <<[price |-> price, params |-> params, z |-> draw.z,
                  simulations |-> simulations]>>]

\* lines 34-56 of _calculate_price, after the draw
MonteCarlo_after_draw(params, simulations, draw) ==
    IF params.time_to_expiry < 0                                \* math.sqrt(T), line 45
    THEN [price |-> 0, exc |-> "ValueError", rng |-> draw.state, evals |-> <<>>]
    ELSE MonteCarlo_priced(params, simulations, draw,
             MonteCarlo_price_from_draws(params, simulations, draw.z))

\* _calculate_price without line 32: the draws continue the global stream
MonteCarlo_calculate_price_unseeded(rng, params, simulations, seed) ==
    IF simulations < 0
    THEN [price |-> 0, exc |-> "ValueError", rng |-> rng, evals |-> <<>>]
    ELSE MonteCarlo_after_draw(params, simulations,
             standard_normal(rng, simulations))

\* _calculate_price (simulations # 0): reseeds the global generator, draws, prices.
\* rng is the global state left behind, evals the evaluation completed (if any)
MonteCarlo_calculate_price(rng, params, simulations, seed) ==
    IF simulations < 0                                          \* line 42 raises
    THEN [price |-> 0, exc |-> "ValueError", rng |-> np_random_seed(seed),
          evals |-> <<>>]
    ELSE MonteCarlo_after_draw(params, simulations,
             standard_normal(np_random_seed(seed), simulations))   \* lines 32, 42

\* the price evaluations of `contracts`, in order, each starting from the
\* generator state the one before left; an exception ends them
RECURSIVE MonteCarlo_evaluate(_, _, _, _, _)
RECURSIVE MonteCarlo_evaluated(_, _, _, _, _)
MonteCarlo_evaluate(rng, contracts, simulations, seed, done) ==
    IF contracts = <<>> THEN [prices |-> done, rng |-> rng]
    ELSE MonteCarlo_evaluated(
             MonteCarlo_calculate_price(rng, Head(contracts), simulations, seed),
             Tail(contracts), simulations, seed, done)
MonteCarlo_evaluated(o, rest, simulations, seed, done) ==
    IF ~Returned(o) THEN [prices |-> Append(done, o), rng |-> o.rng]
    ELSE MonteCarlo_evaluate(o.rng, rest, simulations, seed, Append(done, o))

RECURSIVE ConcatEvals(_)
ConcatEvals(prices) ==
    IF prices = <<>> THEN <<>> ELSE Head(prices).evals \o ConcatEvals(Tail(prices))

\* lines 75-107: the Greeks of a completed run of evaluations
MonteCarlo_greeks(params, run, g) ==
    [greeks |-> g.greeks, exc |-> g.exc, rng |-> run.rng,
     evals |-> ConcatEvals(run.prices)]

MonteCarlo_greeks_of_run(params, run) ==
    MonteCarlo_greeks(params, run,
        IF Len(run.prices) < 6
        THEN [greeks |-> NoGreeks, exc |-> FirstExc(run.prices)]
        ELSE GreeksFromPrices(params, run.prices))

\* _calculate_greeks_finite_diff with a seed of its own for its evaluations
MonteCarlo_calculate_greeks_finite_diff_own_seed(rng, params, simulations) ==
    MonteCarlo_greeks_of_run(params,
        MonteCarlo_evaluate(rng, FiniteDiffContracts(params), simulations, SEED + 1,
                            <<>>))

\* _calculate_greeks_finite_diff: base, up, down, theta, vega, rho with seed 42
MonteCarlo_calculate_greeks_finite_diff(rng, params, simulations) ==
    MonteCarlo_greeks_of_run(params,
        MonteCarlo_evaluate(rng, FiniteDiffContracts(params), simulations, SEED, <<>>))

\* calculate_greeks
MonteCarlo_calculate_greeks(rng, params, simulations) ==
    MonteCarlo_calculate_greeks_finite_diff(rng, params, simulations)

\* lines 17-23 of calculate: the PricingResult from the timed price and the Greeks
MonteCarlo_result(timed, g, simulations, time) ==
    IF ~Returned(g)
    THEN [exc |-> g.exc, result |-> NoResult, rng |-> g.rng, evals |-> timed.evals]
    ELSE [exc |-> "none",
          result |-> PricingResult(timed.price, time, "Monte Carlo", g.greeks,
                                   simulations),
          rng |-> g.rng, evals |-> timed.evals \o g.evals]

\* lines 14-23 of calculate, after the timed price
MonteCarlo_after_price(timed, params, simulations, time) ==
    IF ~Returned(timed)
    THEN [exc |-> timed.exc, result |-> NoResult, rng |-> timed.rng, evals |-> <<>>]
    ELSE MonteCarlo_result(timed,
             MonteCarlo_calculate_greeks(timed.rng, params, simulations),
             simulations, time)

\* calculate: the timed price (default seed), then the Greeks
MonteCarlo_calculate(rng, params, simulations, time) ==
    MonteCarlo_after_price(MonteCarlo_calculate_price(rng, params, simulations, SEED),
                           params, simulations, time)

----------------------------------------------------------------------------
(* pricing_engine.py: PricingEngine *)

\* the keys of self.models
Models == {"black_scholes", "binomial", "monte_carlo"}

\* the defaults of BinomialTreeModel.calculate(steps=100) and
\* MonteCarloModel.calculate(simulations=10000), scaled to the model's bounds
default_steps == MaxSteps
default_simulations == MaxSimulations

Invocation(model, config) == [model |-> model, config |-> config]

\* one try / except block of calculate_all_models: the result is appended, or
\* the exception is caught (and printed)
Guarded(acc, model, o) ==
    [failed |-> IF Returned(o) THEN acc.failed ELSE Append(acc.failed, <<model, o.exc>>),
     results |-> IF Returned(o) THEN Append(acc.results, o.result) ELSE acc.results]

AllModelsReturn(acc, mc, binomial_steps, monte_carlo_simulations) ==
    [invoked |-> <<Invocation("black_scholes", 0),
                   Invocation("binomial", binomial_steps),
                   Invocation("monte_carlo", monte_carlo_simulations)>>, failed |-> acc.failed, exc |-> "none",
     rng |-> mc.rng,
     evals |-> mc.evals, results |-> acc.results]

\* calculate_all_models without the try / except blocks: the first exception
\* leaves the method
AllModelsCollect_unguarded(bs, bin, mc, binomial_steps, monte_carlo_simulations) ==
    IF Returned(bs) /\ Returned(bin) /\ Returned(mc)
    THEN AllModelsReturn([failed |-> <<>>,
                          results |-> <<bs.result, bin.result, mc.result>>],
                         mc, binomial_steps, monte_carlo_simulations)
    ELSE [invoked |-> <<Invocation("black_scholes", 0)>>, failed |-> <<>>, exc |-> FirstExc(<<bs, bin, mc>>),
          rng |-> mc.rng,
          evals |-> <<>>, results |-> <<>>]

\* calculate_all_models with the Monte Carlo block before the binomial block
AllModelsCollect_reordered(bs, bin, mc, binomial_steps, monte_carlo_simulations) ==
    [invoked |-> <<Invocation("black_scholes", 0),
                   Invocation("monte_carlo", monte_carlo_simulations),
                   Invocation("binomial", binomial_steps)>>,
     failed |-> Guarded(Guarded(Guarded([failed |-> <<>>, results |-> <<>>],
                                        "black_scholes", bs),
                                "monte_carlo", mc),
                        "binomial", bin).failed,
     exc |-> "none",
     rng |-> mc.rng,
     evals |-> mc.evals,
     results |-> Guarded(Guarded(Guarded([failed |-> <<>>, results |-> <<>>],
                                         "black_scholes", bs),
                                 "monte_carlo", mc),
                         "binomial", bin).results]

\* the three try / except blocks of calculate_all_models, in the order of the code
AllModelsCollect(bs, bin, mc, binomial_steps, monte_carlo_simulations) ==
    AllModelsReturn(
        Guarded(Guarded(Guarded([failed |-> <<>>, results |-> <<>>],
                                "black_scholes", bs),
                        "binomial", bin),
                "monte_carlo", mc),
        mc, binomial_steps, monte_carlo_simulations)

\* calculate_all_models: three guarded invocations in the order of the code.
\* times gives each model's measured computation_time.
calculate_all_models(rng, params, binomial_steps, monte_carlo_simulations, times) ==
    AllModelsCollect(
        BlackScholes_calculate(params, times.black_scholes),
        BinomialTree_calculate(params, binomial_steps, times.binomial),
        MonteCarlo_calculate(rng, BinomialTree_params_after(params, binomial_steps),
                             monte_carlo_simulations, times.monte_carlo),
        binomial_steps, monte_carlo_simulations)

\* what calculate_single_model hands back from self.models[model_name].calculate
Dispatched(o, rng, evals, model_name, config) ==
    [invoked |-> <<Invocation(model_name, config)>>, exc |-> o.exc, result |-> o.result,
     rng |-> rng, evals |-> evals]

MonteCarloDispatched(o, model_name, config) ==
    Dispatched(o, o.rng, o.evals, model_name, config)

\* calculate_single_model falling back to the Monte Carlo model for an
\* identifier it does not know
calculate_single_model_default(rng, model_name, params, kwargs, time) ==
    IF model_name = "black_scholes"
    THEN Dispatched(BlackScholes_calculate(params, time), rng, <<>>, model_name, 0)
    ELSE IF model_name = "binomial"
    THEN Dispatched(BinomialTree_calculate(params, kwargs.steps, time), rng, <<>>,
                    model_name, kwargs.steps)
    ELSE MonteCarloDispatched(
             MonteCarlo_calculate(rng, params, kwargs.simulations, time),
             "monte_carlo", kwargs.simulations)

\* calculate_single_model: exc "UnknownModel" stands for
\* ValueError("Unknown model: ..."); kwargs carries steps / simulations
calculate_single_model(rng, model_name, params, kwargs, time) ==
    IF model_name \notin Models
    THEN [invoked |-> <<>>, exc |-> "UnknownModel", result |-> NoResult,
          rng |-> rng, evals |-> <<>>]
    ELSE IF model_name = "black_scholes"
    THEN Dispatched(BlackScholes_calculate(params, time), rng, <<>>, model_name, 0)
    ELSE IF model_name = "binomial"
    THEN Dispatched(BinomialTree_calculate(params, kwargs.steps, time), rng, <<>>,
                    model_name, kwargs.steps)
    ELSE MonteCarloDispatched(
             MonteCarlo_calculate(rng, params, kwargs.simulations, time),
             model_name, kwargs.simulations)

\* ValueError and its instances
IsValueError(exc) == exc \in {"ValueError", "UnknownModel"}

(* get_model_comparison_metrics *)

\* the value q + r/b, kept exact without forming products beyond 32 bits
Frac(q, r) == [q |-> q, r |-> r]
FracAdd(v, w, b) == Frac(v.q + w.q + (IF v.r + w.r >= b THEN 1 ELSE 0), (v.r + w.r) % b)
FracTimes10(v, b) ==
    LET v2 == FracAdd(v, v, b)
        v4 == FracAdd(v2, v2, b)
        v5 == FracAdd(v4, v, b)
    IN  FracAdd(v5, v5, b)

RECURSIVE FracShift(_, _, _)
FracShift(v, b, digits) ==
    IF digits = 0 THEN v ELSE FracShift(FracTimes10(v, b), b, digits - 1)

\* round(a / b * 10^digits) for a >= 0, b > 0: nearest integer, ties to even
RoundScaledRatio(a, b, digits) ==
    LET v == FracShift(Frac(a \div b, a % b), b, digits)
    IN  IF 2 * v.r < b THEN v.q
        ELSE IF 2 * v.r > b THEN v.q + 1
        ELSE IF v.q % 2 = 0 THEN v.q ELSE v.q + 1

\* round(num / den, 6) in ticks
RoundRatio6(num, den) ==
    LET unit == den * TicksPerMicro
        q == num \div unit
        r == num % unit
    IN  IF 2 * r < unit THEN q * TicksPerMicro
        ELSE IF 2 * r > unit THEN (q + 1) * TicksPerMicro
        ELSE IF q % 2 = 0 THEN q * TicksPerMicro ELSE (q + 1) * TicksPerMicro

RECURSIVE SeqMax(_)
SeqMax(s) == IF Len(s) = 1 THEN s[1] ELSE Max(s[1], SeqMax(Tail(s)))
RECURSIVE SeqMin(_)
SeqMin(s) == IF Len(s) = 1 THEN s[1] ELSE Min(s[1], SeqMin(Tail(s)))

\* min(results, key=...) / max(results, key=...): the first extremal element
FirstWithTime(results, t) ==
    results[CHOOSE i \in 1..Len(results) :
                /\ results[i].computation_time = t
                /\ \A j \in 1..(i - 1) : results[j].computation_time # t]

EmptyMetrics ==
    [empty |-> TRUE, average_price |-> 0, max_difference |-> 0,
     max_difference_pct |-> 0, total_computation_time |-> 0, fastest_model |-> "",
     slowest_model |-> "", price_range |-> [min |-> 0, max |-> 0]]

\* get_model_comparison_metrics taking the largest signed difference (no abs)
get_model_comparison_metrics_signed(results) ==
    IF results = <<>> THEN EmptyMetrics
    ELSE
      LET n == Len(results)
          prices == [i \in 1..n |-> results[i].price]
          computation_times == [i \in 1..n |-> results[i].computation_time]
          total == SumSeq(prices)
          dev == SeqMax([i \in 1..n |-> n * prices[i] - total])
      IN  [empty |-> FALSE,
           average_price |-> RoundRatio6(total, n),
           max_difference |-> RoundRatio6(dev, n),
           max_difference_pct |->
               IF total > 0 THEN RoundScaledRatio(dev, total, 6) ELSE 0,
           total_computation_time |->
               RoundHalfEven(SumSeq(computation_times), 10) \div 10,
           fastest_model |->
               FirstWithTime(results, SeqMin(computation_times)).model_name,
           slowest_model |->
               FirstWithTime(results, SeqMax(computation_times)).model_name,
           price_range |-> [min |-> RoundHalfEven(SeqMin(prices), TicksPerMicro),
                            max |-> RoundHalfEven(SeqMax(prices), TicksPerMicro)]]

\* average_price, max_difference, price_range in ticks; max_difference_pct in
\* units of 1e-4 percent; total_computation_time in units of 0.01 ms
get_model_comparison_metrics(results) ==
    IF results = <<>> THEN EmptyMetrics
    ELSE
      LET n == Len(results)
          prices == [i \in 1..n |-> results[i].price]
          computation_times == [i \in 1..n |-> results[i].computation_time]
          total == SumSeq(prices)                      \* avg_price = total / n
          dev == SeqMax([i \in 1..n |-> Abs(n * prices[i] - total)])
                                                       \* max_diff = dev / n
      IN  [empty |-> FALSE,
           average_price |-> RoundRatio6(total, n),
           max_difference |-> RoundRatio6(dev, n),
           max_difference_pct |->
               IF total > 0 THEN RoundScaledRatio(dev, total, 6) ELSE 0,
           total_computation_time |->
               RoundHalfEven(SumSeq(computation_times), 10) \div 10,
           fastest_model |->
               FirstWithTime(results, SeqMin(computation_times)).model_name,
           slowest_model |->
               FirstWithTime(results, SeqMax(computation_times)).model_name,
           price_range |-> [min |-> RoundHalfEven(SeqMin(prices), TicksPerMicro),
                            max |-> RoundHalfEven(SeqMax(prices), TicksPerMicro)]]

----------------------------------------------------------------------------
(* routers/options.py.  Each handler is an operator from its inputs and the   *)
(* global generator state to the response and the state left.                  *)

\* OptionRequest (lines 10-28): the errors pydantic reports for a request body,
\* in field order.  The ranges of binomial_steps (ge=10, le=1000) and
\* monte_carlo_simulations (ge=1000, le=100000) are scaled to 1..MaxSteps and
\* 1..MaxSimulations.
OptionRequest_errors(raw, binomial_steps, monte_carlo_simulations) ==
       Msg(Lower(raw.option_type) \notin {"call", "put"},
           "option_type: Option type must be \"call\" or \"put\"")
    \o Msg(raw.spot_price <= 0, "spot_price: must be greater than 0")
    \o Msg(raw.strike_price <= 0, "strike_price: must be greater than 0")
    \o Msg(raw.time_to_expiry <= 0, "time_to_expiry: must be greater than 0")
    \o Msg(raw.dividend_yield < 0, "dividend_yield: must be greater than or equal to 0")
    \o Msg(raw.volatility <= 0, "volatility: must be greater than 0")
    \o Msg(binomial_steps \notin 1..MaxSteps, "binomial_steps: out of range")
    \o Msg(monte_carlo_simulations \notin 1..MaxSimulations,
           "monte_carlo_simulations: out of range")

\* the request object of a body pydantic accepts: validate_option_type returns
\* v.lower()
OptionRequest(raw) == [raw EXCEPT !.option_type = Lower(@)]

Response(status, exc, results, summary, validation_errors, body) ==
    [exc |-> exc, results |-> results, status |-> status, summary |-> summary,
     validation_errors |-> validation_errors, body |-> body]

Handled(resp, rng, inv, fail, evals) ==
    [response |-> resp, invoked |-> inv, failed |-> fail, rng |-> rng, evals |-> evals]

\* lines 71-76 of calculate_option_price: one formatted result
FormatResult(result) ==
    [price |-> RoundHalfEven(result.price, TicksPerMicro),
     computation_time |-> RoundHalfEven(result.computation_time, 10) \div 10,
     model_name |-> result.model_name,
     greeks |-> result.greeks,              \* round(v, 6) of values held in 1e-6
     parameters |-> result.parameters]

\* lines 68-91 of calculate_option_price
PriceResponse(all) ==
    Handled(Response(200, "none",
                     [i \in 1..Len(all.results) |-> FormatResult(all.results[i])],
                     get_model_comparison_metrics(all.results), <<>>, <<>>),
            all.rng, all.invoked, all.failed, all.evals)

\* lines 51-59: the response when validate_parameters has a message
PriceRejected(rng, validation_errors) ==
    Handled(Response(200, "none", <<>>, EmptyMetrics, validation_errors, <<>>),
            rng, <<>>, <<>>, <<>>)

\* whether a message of validate_parameters is one of its two advisory ones
IsWarning(msg) ==
    msg \in {"Time to expiry seems unusually long (>10 years)",
             "Volatility seems unusually high (>500%)"}

\* the /price handler halting on the hard violations only
calculate_option_price_advisory(rng, params, binomial_steps, monte_carlo_simulations, times) ==
    IF \E i \in DOMAIN validate_parameters(params) :
           ~IsWarning(validate_parameters(params)[i])
    THEN PriceRejected(rng, validate_parameters(params))
    ELSE PriceResponse(calculate_all_models(rng, params, binomial_steps,
                                            monte_carlo_simulations, times))

\* the handler of POST /price on a request object
calculate_option_price(rng, params, binomial_steps, monte_carlo_simulations, times) ==
    IF validate_parameters(params) # <<>>
    THEN PriceRejected(rng, validate_parameters(params))
    ELSE PriceResponse(calculate_all_models(rng, params, binomial_steps,
                                            monte_carlo_simulations, times))

\* a body the request model rejects: FastAPI answers 422 with pydantic's errors
\* and the handler does not run
Unprocessable(rng, errors) ==
    Handled(Response(422, "RequestValidationError", <<>>, EmptyMetrics, errors, <<>>),
            rng, <<>>, <<>>, <<>>)

\* POST /price as served: the body is parsed into an OptionRequest, then handled
price_endpoint(rng, raw, binomial_steps, monte_carlo_simulations, times) ==
    IF OptionRequest_errors(raw, binomial_steps, monte_carlo_simulations) # <<>>
    THEN Unprocessable(rng,
             OptionRequest_errors(raw, binomial_steps, monte_carlo_simulations))
    ELSE calculate_option_price(rng, OptionRequest(raw), binomial_steps,
                                monte_carlo_simulations, times)

NoKwargs == [steps |-> default_steps, simulations |-> default_simulations]

\* lines 128-139 of calculate_greeks: the body returned, or the exception
\* mapped to a status (ValueError: 400, any other: 500)
GreeksResponse(o, model) ==
    IF Returned(o)
    THEN Handled(Response(200, "none", <<>>, EmptyMetrics, <<>>,
                     [price |-> RoundHalfEven(o.result.price, TicksPerMicro),
                      computation_time |->
                          RoundHalfEven(o.result.computation_time, 10) \div 10,
                      greeks |-> o.result.greeks,
                      model |-> o.result.model_name]),
                 o.rng, o.invoked, <<>>, o.evals)
    ELSE Handled(Response(IF IsValueError(o.exc) THEN 400 ELSE 500, o.exc,
                          <<>>, EmptyMetrics, <<>>, <<>>),
                 o.rng, o.invoked, <<<<model, o.exc>>>>, o.evals)

\* the /greeks handler raising on the hard violations only
GreeksValidated_advisory(rng, params, model, time) ==
    IF \E i \in DOMAIN validate_parameters(params) :
           ~IsWarning(validate_parameters(params)[i])
    THEN Handled(Response(500, "HTTPException", <<>>, EmptyMetrics,
                          validate_parameters(params), <<>>),
                 rng, <<>>, <<>>, <<>>)
    ELSE GreeksResponse(calculate_single_model(rng, model, params, NoKwargs, time),
                        model)

\* lines 110-126 of calculate_greeks on the contract built.  HTTPException is an
\* Exception and no ValueError: the one raised for a validation failure inside
\* the try block is caught by the last handler and re-raised with status 500.
GreeksValidated(rng, params, model, time) ==
    IF validate_parameters(params) # <<>>
    THEN Handled(Response(500, "HTTPException", <<>>, EmptyMetrics,
                          validate_parameters(params), <<>>),
                 rng, <<>>, <<>>, <<>>)
    ELSE GreeksResponse(calculate_single_model(rng, model, params, NoKwargs, time),
                        model)

\* GET /greeks/{symbol}
calculate_greeks(rng, raw, model, time) ==
    GreeksValidated(rng, [raw EXCEPT !.option_type = Lower(@)], model, time)

\* np.linspace(a, b, n), n >= 1
linspace(a, b, n) ==
    [i \in 1..n |-> IF n = 1 THEN a ELSE a + ((i - 1) * (b - a)) \div (n - 1)]

\* the grid loop of generate_heatmap (lines 181-204) over the remaining cells
\* <<t, s>>, in loop order; the first exception ends it
RECURSIVE HeatmapCells(_, _, _, _, _)
RECURSIVE HeatmapCell(_, _, _, _, _)
HeatmapCells(rng, cells, model, base_params, acc) ==
    IF cells = <<>> THEN [exc |-> "none", rng |-> rng, acc |-> acc]
    ELSE HeatmapCell(
             calculate_single_model(rng, model,
                 [base_params EXCEPT !.spot_price = Head(cells)[2],
                                     !.time_to_expiry = Head(cells)[1]],
                 NoKwargs, 0),
             Tail(cells), model, base_params, acc)
HeatmapCell(o, rest, model, base_params, acc) ==
    IF Returned(o)
    THEN HeatmapCells(o.rng, rest, model, base_params,
             [invoked |-> acc.invoked \o o.invoked,
              failed |-> acc.failed,
              evals |-> acc.evals \o o.evals,
              results |-> Append(acc.results, o.result)])
    ELSE [exc |-> o.exc, rng |-> o.rng,
          acc |-> [invoked |-> acc.invoked \o o.invoked,
                   failed |-> Append(acc.failed, <<model, o.exc>>),
                   evals |-> acc.evals \o o.evals,
                   results |-> acc.results]]

\* the cells <<t, s>> of the grid: t the outer loop, s the inner
GridCells(spot_prices, times, grid_size) ==
    [k \in 1..(grid_size * grid_size) |->
        <<times[((k - 1) \div grid_size) + 1], spot_prices[((k - 1) % grid_size) + 1]>>]

\* lines 206-223: the body returned, or the exception mapped to status 400
HeatmapResponse(run, model, spot_prices, times, grid_size) ==
    IF run.exc # "none"
    THEN Handled(Response(400, run.exc, <<>>, EmptyMetrics, <<>>, <<>>),
                 run.rng, run.acc.invoked, run.acc.failed, run.acc.evals)
    ELSE Handled(Response(200, "none", <<>>, EmptyMetrics, <<>>,
                     [model |-> model, times |-> times, spot_prices |-> spot_prices,
                      price_matrix |->
                          [ti \in 1..grid_size |-> [si \in 1..grid_size |->
                              RoundHalfEven(
                                  run.acc.results[(ti - 1) * grid_size + si].price,
                                  TicksPerMicro)]],
                      delta_matrix |->
                          [ti \in 1..grid_size |-> [si \in 1..grid_size |->
                              run.acc.results[(ti - 1) * grid_size + si].greeks.delta]],
                      gamma_matrix |->
                          [ti \in 1..grid_size |-> [si \in 1..grid_size |->
                              run.acc.results[(ti - 1) * grid_size + si].greeks.gamma]]]),
                 run.rng, run.acc.invoked, run.acc.failed, run.acc.evals)

HeatmapGrid(rng, base_params, spot_prices, times, grid_size, model) ==
    HeatmapResponse(
        HeatmapCells(rng, GridCells(spot_prices, times, grid_size), model, base_params,
            [invoked |-> <<>>, failed |-> <<>>, evals |-> <<>>, results |-> <<>>]),
        model, spot_prices, times, grid_size)

\* the handler of POST /heatmap on a request object (grid_size >= 1)
generate_heatmap(rng, base_params, spot_range, time_range, grid_size, model) ==
    IF validate_parameters(base_params) # <<>>
    THEN Handled(Response(400, "HTTPException", <<>>, EmptyMetrics,
                          validate_parameters(base_params), <<>>),
                 rng, <<>>, <<>>, <<>>)
    ELSE HeatmapGrid(rng, base_params,
             linspace((base_params.spot_price * spot_range[1]) \div FP,
                      (base_params.spot_price * spot_range[2]) \div FP, grid_size),
             linspace(time_range[1], time_range[2], grid_size),
             grid_size, model)

\* POST /heatmap as served: the body is parsed into an OptionRequest (with the
\* default binomial_steps and monte_carlo_simulations), then handled
heatmap_endpoint(rng, raw, spot_range, time_range, grid_size, model) ==
    IF OptionRequest_errors(raw, default_steps, default_simulations) # <<>>
    THEN Unprocessable(rng,
             OptionRequest_errors(raw, default_steps, default_simulations))
    ELSE generate_heatmap(rng, OptionRequest(raw), spot_range, time_range,
                          grid_size, model)

----------------------------------------------------------------------------
(* Inputs *)

Base == OptionParameters(10 * FP, 10 * FP, FP, 50, 0, 200, "call")

\* contracts validate_parameters has no message for
ValidContracts ==
    { Base,
      [Base EXCEPT !.option_type = "Put", !.dividend_yield = 20],
      [Base EXCEPT !.strike_price = 11 * FP, !.risk_free_rate = -10] }

\* contracts with a long-dated and / or extreme-volatility message only
WarningContracts ==
    { [Base EXCEPT !.time_to_expiry = 11 * FP, !.option_type = "put"],
      [Base EXCEPT !.volatility = 6 * FP, !.time_to_expiry = 4],
      [Base EXCEPT !.time_to_expiry = 11 * FP, !.volatility = 6 * FP,
                   !.option_type = "put"] }

\* contracts with at least one hard violation
HardContracts ==
    { [Base EXCEPT !.spot_price = -FP],
      [Base EXCEPT !.strike_price = 0],
      [Base EXCEPT !.time_to_expiry = 0],
      [Base EXCEPT !.volatility = 0],
      [Base EXCEPT !.option_type = "straddle"],
      [Base EXCEPT !.spot_price = -FP, !.strike_price = 0, !.volatility = 0],
      [Base EXCEPT !.spot_price = -FP, !.time_to_expiry = 11 * FP,
                   !.option_type = "put"] }

Contracts == ValidContracts \cup WarningContracts \cup HardContracts

\* request objects handed to the /price handler without the request model's
\* validation (OptionRequest.construct, a test double)
HandlerContracts ==
    HardContracts \cup
    { Base, [Base EXCEPT !.time_to_expiry = 11 * FP, !.option_type = "put"] }

\* base contracts of the heatmap requests
HeatmapContracts ==
    { Base,
      [Base EXCEPT !.time_to_expiry = 11 * FP, !.option_type = "put"],
      [Base EXCEPT !.spot_price = -FP] }

\* contracts handed to the engine without validation
EngineContracts ==
    { Base,
      [Base EXCEPT !.option_type = "Put", !.dividend_yield = 20],
      [Base EXCEPT !.spot_price = -FP],
      [Base EXCEPT !.strike_price = 0],
      [Base EXCEPT !.time_to_expiry = -FP, !.option_type = "put"],
      [Base EXCEPT !.volatility = 0] }

StepCounts == {MaxSteps - 1, MaxSteps}
SimulationCounts == {MaxSimulations - 1, MaxSimulations}
\* measured computation times
Times == {4, 16}
ModelNames == Models \cup {"quasi_monte_carlo"}
SpotRanges == {<<800, 1200>>}
TimeRanges == {<<100, FP>>, <<0, FP>>, <<-500, 500>>}

Workers == {1, 2}

Req(endpoint, params, model, steps, simulations, spot_range, time_range, grid_size) ==
    [endpoint |-> endpoint, params |-> params, model |-> model,
     binomial_steps |-> steps, monte_carlo_simulations |-> simulations,
     spot_range |-> spot_range, time_range |-> time_range, grid_size |-> grid_size]

----------------------------------------------------------------------------
(* The server: one handler at a time (the handlers are coroutines that never   *)
(* await, so the event loop runs each to completion)                           *)

Init ==
    /\ np_random = 0
    /\ request = Req("none", Base, "", 0, 0, <<>>, <<>>, 0)
    /\ response = Response(0, "none", <<>>, EmptyMetrics, <<>>, <<>>)
    /\ invoked = <<>>
    /\ failed = <<>>
    /\ evalLog = <<>>
    /\ mcSeen = {}
    /\ pc = [w \in Workers |-> "idle"]
    /\ wparams = [w \in Workers |-> Base]
    /\ wsims = [w \in Workers |-> 0]
    /\ wz = [w \in Workers |-> <<>>]
    /\ wprice = [w \in Workers |-> 0]

\* what a direct caller of calculate_all_models holds when it returns
EngineReturned(all) ==
    Handled(Response(0, all.exc, all.results, EmptyMetrics, <<>>, <<>>),
            all.rng, all.invoked, all.failed, all.evals)

\* the state a handler leaves
Commit(req, h) ==
    /\ request' = req
    /\ response' = h.response
    /\ np_random' = h.rng
    /\ invoked' = h.invoked
    /\ failed' = h.failed
    /\ evalLog' = h.evals
    /\ UNCHANGED <<mcSeen, pc, wparams, wsims, wz, wprice>>

PriceRequestOn(contracts) ==
    \E raw \in contracts, steps \in StepCounts, sims \in SimulationCounts,
       t \in Times :
        Commit(Req("price", raw, "", steps, sims, <<>>, <<>>, 0),
               price_endpoint(np_random, raw, steps, sims,
                   [black_scholes |-> t, binomial |-> t, monte_carlo |-> 20 - t]))

\* the /price handler called on a request object as it is
PriceHandlerCallOn(contracts) ==
    \E params \in contracts :
        Commit(Req("price_handler", params, "", default_steps, default_simulations,
                   <<>>, <<>>, 0),
               calculate_option_price(np_random, params, default_steps,
                   default_simulations,
                   [black_scholes |-> 4, binomial |-> 16, monte_carlo |-> 16]))

GreeksRequestOn(contracts) ==
    \E params \in contracts, model \in ModelNames, t \in Times :
        Commit(Req("greeks", params, model, 0, 0, <<>>, <<>>, 0),
               calculate_greeks(np_random, params, model, t))

HeatmapRequestOn(contracts) ==
    \E raw \in contracts, model \in ModelNames, spot_range \in SpotRanges,
       time_range \in TimeRanges, grid_size \in 1..MaxGrid :
        Commit(Req("heatmap", raw, model, 0, 0, spot_range, time_range, grid_size),
               heatmap_endpoint(np_random, raw, spot_range, time_range, grid_size,
                                model))

\* pricing_engine.calculate_all_models called on its own (no validation before it)
EngineCalculateAllModelsOn(contracts) ==
    \E params \in contracts, steps \in {0, MaxSteps}, sims \in {-1, MaxSimulations},
       t \in Times :
        Commit(Req("all_models", params, "", steps, sims, <<>>, <<>>, 0),
               EngineReturned(calculate_all_models(np_random, params, steps, sims,
                   [black_scholes |-> 20 - t, binomial |-> t, monte_carlo |-> 16])))

PriceRequest == PriceRequestOn(Contracts)
PriceHandlerCall == PriceHandlerCallOn(HandlerContracts)
GreeksRequest == GreeksRequestOn(Contracts)
HeatmapRequest == HeatmapRequestOn(HeatmapContracts)
EngineCalculateAllModels == EngineCalculateAllModelsOn(EngineContracts)

Next ==
    \/ PriceRequest
    \/ PriceHandlerCall
    \/ GreeksRequest
    \/ HeatmapRequest
    \/ EngineCalculateAllModels

Spec == Init /\ [][Next]_vars

----------------------------------------------------------------------------
(* Properties of the validation gate (C1 - C3) *)

\* the fields of a contract that violate a hard rule
HardFields(params) ==
    {f \in {"spot_price", "strike_price", "time_to_expiry", "volatility"} :
        params[f] <= 0}
    \cup (IF Lower(params.option_type) \in {"call", "put"} THEN {}
          ELSE {"option_type"})

\* the messages that report a field: validate_parameters' and the request model's
FieldMessages(f) ==
    CASE f = "spot_price" ->
           {"Spot price must be positive", "spot_price: must be greater than 0"}
      [] f = "strike_price" ->
           {"Strike price must be positive", "strike_price: must be greater than 0"}
      [] f = "time_to_expiry" ->
           {"Time to expiry must be positive", "time_to_expiry: must be greater than 0"}
      [] f = "volatility" ->
           {"Volatility must be positive", "volatility: must be greater than 0"}
      [] f = "option_type" ->
           {"Option type must be 'call' or 'put'",
            "option_type: Option type must be \"call\" or \"put\""}

\* long-dated and / or extreme volatility, and no hard violation
WarningOnly(params) ==
    /\ HardFields(params) = {}
    /\ params.time_to_expiry > 10 * FP \/ params.volatility > 5 * FP

\* the multi-model path ended before any model: nothing invoked, no price
\* evaluation, no result, no metrics
Halted ==
    /\ invoked = <<>>
    /\ evalLog = <<>>
    /\ response.results = <<>>
    /\ response.summary = EmptyMetrics

\* C1: a /price request whose contract has a hard violation invokes no model,
\* has an empty result sequence and empty metrics, and hands the caller a
\* non-empty violation list with a message for each violated field.
C1_ValidationGating ==
    (request.endpoint \in {"price", "price_handler"}
        /\ HardFields(request.params) # {}) =>
        /\ Halted
        /\ response.validation_errors # <<>>
        /\ \A f \in HardFields(request.params) :
               \E i \in DOMAIN response.validation_errors :
                   response.validation_errors[i] \in FieldMessages(f)

\* the handler has gated spot_price = -1 with validate_parameters' message
C1_Witness ==
    /\ request.endpoint = "price_handler"
    /\ request.params.spot_price = -FP
    /\ response.validation_errors = <<"Spot price must be positive">>
    /\ Halted

C3_AnyMessageFatal ==
    (request.endpoint \in {"greeks", "heatmap"}
        /\ (HardFields(request.params) # {} \/ WarningOnly(request.params))) =>
        /\ invoked = <<>>
        /\ evalLog = <<>>
        /\ response.status # 200
        /\ response.exc # "none"
        /\ response.validation_errors # <<>>

\* a Greeks request for a registered model ended by the volatility warning alone
C3_Witness ==
    /\ request.endpoint = "greeks"
    /\ request.model = "monte_carlo"
    /\ WarningOnly(request.params)
    /\ response.validation_errors = <<"Volatility seems unusually high (>500%)">>
    /\ response.exc = "HTTPException"
    /\ invoked = <<>>

----------------------------------------------------------------------------
(* Properties of the engine (C4 - C7) *)

\* calculate_all_models ran in the step that led to this state
RanAllModels ==
    \/ request.endpoint = "all_models"
    \/ /\ request.endpoint \in {"price", "price_handler"}
       /\ response.validation_errors = <<>>

\* the contract the models were given
GivenContract ==
    IF request.endpoint \in {"price", "heatmap"}
    THEN OptionRequest(request.params)
    ELSE IF request.endpoint = "greeks"
    THEN [request.params EXCEPT !.option_type = Lower(@)]
    ELSE request.params

FixedOrder == <<"black_scholes", "binomial", "monte_carlo">>

ModelNameOf(m) ==
    CASE m = "black_scholes" -> "Black-Scholes"
      [] m = "binomial" -> "Binomial Tree"
      [] m = "monte_carlo" -> "Monte Carlo"

\* the models whose exception calculate_all_models caught
FailedModels == {failed[i][1] : i \in DOMAIN failed}

ResultNames == [i \in DOMAIN response.results |-> response.results[i].model_name]

\* whether a model, run on its own on the request's contract, raises
FailsAlone(m) ==
    ~Returned(calculate_single_model(0, m, GivenContract,
                  [steps |-> request.binomial_steps,
                   simulations |-> request.monte_carlo_simulations], 0))

Survives(m) == m \notin FailedModels

\* C4: calculate_all_models never raises; every model is invoked whatever the
\* others do; the models caught failing are exactly those that fail on their
\* own, and the result sequence holds exactly the results of the others.
C4_PartialFailureTolerance ==
    RanAllModels =>
        /\ response.exc = "none"
        /\ Len(invoked) = 3
        /\ {invoked[i].model : i \in DOMAIN invoked} = Models
        /\ \A m \in Models : (m \in FailedModels) <=> FailsAlone(m)
        /\ ResultNames =
               [i \in DOMAIN SelectSeq(FixedOrder, Survives) |->
                   ModelNameOf(SelectSeq(FixedOrder, Survives)[i])]

\* two of the three models failed and the third one's result is returned
C4_Witness ==
    /\ request.endpoint = "all_models"
    /\ FailedModels = {"black_scholes", "binomial"}
    /\ ResultNames = <<"Monte Carlo">>
    /\ response.exc = "none"

Rank(name) ==
    CASE name = "Black-Scholes" -> 1
      [] name = "Binomial Tree" -> 2
      [] name = "Monte Carlo" -> 3
      [] OTHER -> 0

\* C5: the models are invoked in the order black_scholes, binomial (with the
\* step count of the request), monte_carlo (with its path count), and the
\* results come in that relative order.
C5_FixedModelOrder ==
    RanAllModels =>
        /\ invoked = <<Invocation("black_scholes", 0),
                       Invocation("binomial", request.binomial_steps),
                       Invocation("monte_carlo", request.monte_carlo_simulations)>>
        /\ \A i \in DOMAIN ResultNames : Rank(ResultNames[i]) > 0
        /\ \A i, j \in DOMAIN ResultNames :
               i < j => Rank(ResultNames[i]) < Rank(ResultNames[j])

\* the binomial result precedes the Monte Carlo result though it took longer
C5_Witness ==
    /\ request.endpoint = "price"
    /\ ResultNames = <<"Binomial Tree", "Monte Carlo">>
    /\ response.results[1].computation_time > response.results[2].computation_time

\* validate_parameters has no message for the contract
NoMessage(params) == HardFields(params) = {} /\ ~WarningOnly(params)

\* C6 as stated: on a contract without validation message every registered
\* model returns a result with a price and the five Greeks, and an identifier
\* that is not registered is the only error.
C6_SingleModelOutput ==
    (request.endpoint = "greeks" /\ NoMessage(request.params)) =>
        IF request.model \in Models
        THEN /\ response.status = 200
             /\ response.exc = "none"
             /\ response.body.greeks \in GreeksSetRecords
        ELSE response.exc = "UnknownModel"

\* what holds of the two numerical models
NumericalModelsOutput ==
    (request.endpoint = "greeks" /\ NoMessage(request.params)
        /\ request.model \in {"binomial", "monte_carlo"}) =>
        /\ response.status = 200
        /\ response.body.greeks \in GreeksSetRecords
        /\ response.body.model = ModelNameOf(request.model)

\* C7: an identifier that is not registered ends calculate_single_model in the
\* unknown-model ValueError: no model is invoked, no price is evaluated, the
\* request fails with status 400.
C7_UnknownModel ==
    (request.endpoint \in {"greeks", "heatmap"} /\ NoMessage(request.params)
        /\ request.model \notin Models) =>
        /\ response.exc = "UnknownModel"
        /\ response.status = 400
        /\ invoked = <<>>
        /\ evalLog = <<>>
        /\ response.body = <<>>

C7_Witness ==
    /\ request.endpoint = "greeks"
    /\ request.model = "quasi_monte_carlo"
    /\ NoMessage(request.params)
    /\ response.exc = "UnknownModel"
    /\ invoked = <<>>

----------------------------------------------------------------------------
(* get_model_comparison_metrics as a function of the result sequence (C8) *)

\* prices of a few ticks (below and at the rounding unit) and prices in dollars
SmallPrices == {0, 5, 10, 25}
DollarPrices == {0, 9 * 10^7, 10^8, 11 * 10^7}
MetricPriceSets == {SmallPrices, DollarPrices}
\* computation times in microseconds
MetricTimes == {4, 5, 16}

MetricNames == <<"Black-Scholes", "Binomial Tree", "Monte Carlo">>

\* the result sequence of n models with the prices and times of f
MetricResults(n, f) ==
    [i \in 1..n |-> PricingResult(f[i][1], f[i][2], MetricNames[i], NoGreeks, 0)]

InitMetrics ==
    /\ np_random = 0
    /\ \E ps \in MetricPriceSets, n \in 0..Len(MetricNames) :
           \E f \in [1..n -> ps \X MetricTimes] :
               response = Response(0, "none", MetricResults(n, f), EmptyMetrics,
                                   <<>>, <<>>)
    /\ request = Req("metrics_input", Base, "", 0, 0, <<>>, <<>>, 0)
    /\ invoked = <<>>
    /\ failed = <<>>
    /\ evalLog = <<>>
    /\ mcSeen = {}
    /\ pc = [w \in Workers |-> "idle"]
    /\ wparams = [w \in Workers |-> Base]
    /\ wsims = [w \in Workers |-> 0]
    /\ wz = [w \in Workers |-> <<>>]
    /\ wprice = [w \in Workers |-> 0]

\* the metrics of the result sequence are computed
Summarise ==
    /\ request.endpoint = "metrics_input"
    /\ request' = [request EXCEPT !.endpoint = "metrics"]
    /\ response' = [response EXCEPT
                       !.summary = get_model_comparison_metrics(response.results)]
    /\ UNCHANGED <<np_random, invoked, failed, evalLog, mcSeen, pc, wparams, wsims,
                   wz, wprice>>

NextMetrics == Summarise

SpecMetrics == InitMetrics /\ [][NextMetrics]_vars

Summarised == request.endpoint = "metrics"

InPrices == [i \in DOMAIN response.results |-> response.results[i].price]
InTimes == [i \in DOMAIN response.results |-> response.results[i].computation_time]
\* sum(prices), and count * max |price - sum / count|
InTotal == SumSeq(InPrices)
InDev ==
    SeqMax([i \in DOMAIN InPrices |-> Abs(Len(InPrices) * InPrices[i] - InTotal)])

\* v is num / den exactly
IsRatio(v, num, den) == v * den = num

\* v is the integer nearest to num / den, the even one of two at equal distance
IsNearest(v, num, den) ==
    /\ 2 * Abs(v * den - num) <= den
    /\ 2 * Abs(v * den - num) = den => v % 2 = 0

\* the percentage max_diff / avg_price * 100 in units of 1e-4 percent is
\* 10^6 * InDev / InTotal; dollar prices are multiples of 10^6 ticks
PctDen == IF InTotal % 10^6 = 0 THEN InTotal \div 10^6 ELSE InTotal
PctNum == IF InTotal % 10^6 = 0 THEN InDev ELSE InDev * 10^6

ExtremalModels ==
    /\ \E i \in DOMAIN InTimes :
           /\ InTimes[i] = SeqMin(InTimes)
           /\ response.summary.fastest_model = response.results[i].model_name
    /\ \E i \in DOMAIN InTimes :
           /\ InTimes[i] = SeqMax(InTimes)
           /\ response.summary.slowest_model = response.results[i].model_name

\* C8 as stated: the metrics are the exact average, the exact largest absolute
\* difference, its exact percentage, the smallest and largest price, the sum of
\* the computation times (a number of seconds), and models of extremal time.
C8_MetricsExact ==
    Summarised =>
        IF response.results = <<>> THEN response.summary = EmptyMetrics
        ELSE /\ IsRatio(response.summary.average_price, InTotal, Len(InPrices))
             /\ IsRatio(response.summary.max_difference, InDev, Len(InPrices))
             /\ InTotal > 0 =>
                    IsRatio(response.summary.max_difference_pct, PctNum, PctDen)
             /\ response.summary.price_range.min = SeqMin(InPrices)
             /\ response.summary.price_range.max = SeqMax(InPrices)
             /\ response.summary.total_computation_time * 10^4 = SumSeq(InTimes)
             /\ ExtremalModels

\* C8 amended: average, largest absolute difference, smallest and largest price
\* are rounded to 6 decimals (whole micro-units), the percentage to 4 decimals
\* and 0 when the average is not positive, the total computation time is in
\* milliseconds rounded to 2 decimals; all are rounded from the exact values.
C8_MetricsRounded ==
    Summarised =>
        IF response.results = <<>> THEN response.summary = EmptyMetrics
        ELSE /\ response.summary.empty = FALSE
             /\ response.summary.average_price % TicksPerMicro = 0
             /\ IsNearest(response.summary.average_price \div TicksPerMicro,
                          InTotal, TicksPerMicro * Len(InPrices))
             /\ response.summary.max_difference % TicksPerMicro = 0
             /\ IsNearest(response.summary.max_difference \div TicksPerMicro,
                          InDev, TicksPerMicro * Len(InPrices))
             /\ IF InTotal > 0
                THEN IsNearest(response.summary.max_difference_pct, PctNum, PctDen)
                ELSE response.summary.max_difference_pct = 0
             /\ response.summary.price_range.min % TicksPerMicro = 0
             /\ IsNearest(response.summary.price_range.min \div TicksPerMicro,
                          SeqMin(InPrices), TicksPerMicro)
             /\ response.summary.price_range.max % TicksPerMicro = 0
             /\ IsNearest(response.summary.price_range.max \div TicksPerMicro,
                          SeqMax(InPrices), TicksPerMicro)
             /\ IsNearest(response.summary.total_computation_time,
                          SumSeq(InTimes), 10)
             /\ ExtremalModels

\* the metrics of the prices 10, 11, 9: average 10, largest difference 1 and
\* 10 percent, range 9 to 11
C8_Witness ==
    /\ Summarised
    /\ InPrices = <<10^8, 11 * 10^7, 9 * 10^7>>
    /\ response.summary.average_price = 10^8
    /\ response.summary.max_difference = 10^7
    /\ response.summary.max_difference_pct = 10^5
    /\ response.summary.price_range.min = 9 * 10^7
    /\ response.summary.price_range.max = 11 * 10^7

----------------------------------------------------------------------------
(* Monte Carlo evaluations across requests (C9).  mcSeen is a history         *)
(* variable: the evaluation of the latest request that priced its contract by  *)
(* simulation, with the generator state that request found, and at most one    *)
(* evaluation of an earlier request, kept over any number of requests.         *)

SimulationContracts ==
    { Base, [Base EXCEPT !.option_type = "put", !.strike_price = 11 * FP] }

Seen(evals, before) ==
    IF evals = <<>> THEN {}
    ELSE {[price |-> evals[1].price, params |-> evals[1].params,
           simulations |-> evals[1].simulations, before |-> before]}

CommitSeen(req, h) ==
    /\ request' = req
    /\ response' = h.response
    /\ np_random' = h.rng
    /\ invoked' = h.invoked
    /\ failed' = h.failed
    /\ evalLog' = h.evals
    /\ \E kept \in {{}} \cup {{e} : e \in mcSeen} :
           mcSeen' = kept \cup Seen(h.evals, np_random)
    /\ UNCHANGED <<pc, wparams, wsims, wz, wprice>>

SimulationPriceRequest ==
    \E raw \in SimulationContracts, sims \in SimulationCounts :
        CommitSeen(Req("price", raw, "", MaxSteps, sims, <<>>, <<>>, 0),
                   price_endpoint(np_random, raw, MaxSteps, sims,
                       [black_scholes |-> 4, binomial |-> 4, monte_carlo |-> 16]))

SimulationGreeksRequest ==
    \E params \in SimulationContracts, model \in {"binomial", "monte_carlo"} :
        CommitSeen(Req("greeks", params, model, 0, default_simulations, <<>>, <<>>, 0),
                   calculate_greeks(np_random, params, model, 4))

\* a direct engine call whose path count makes the draw raise after the reseed
SimulationEngineCall ==
    CommitSeen(Req("all_models", Base, "", MaxSteps, -1, <<>>, <<>>, 0),
               EngineReturned(calculate_all_models(np_random, Base, MaxSteps, -1,
                   [black_scholes |-> 4, binomial |-> 4, monte_carlo |-> 4])))

NextMC ==
    \/ SimulationPriceRequest
    \/ SimulationGreeksRequest
    \/ SimulationEngineCall

SpecMC == Init /\ [][NextMC]_vars

SameInputs(a, b) == a.params = b.params /\ a.simulations = b.simulations

\* C9: two Monte Carlo price evaluations of the same contract with the same
\* path count return the same price, within one request (evalLog) and across
\* requests that found the generator in any state (mcSeen).
C9_SimulationDeterminism ==
    /\ \A i, j \in DOMAIN evalLog :
           SameInputs(evalLog[i], evalLog[j]) => evalLog[i].price = evalLog[j].price
    /\ \A a, b \in mcSeen : SameInputs(a, b) => a.price = b.price

\* the same contract and path count were priced by requests that found the
\* generator in different states, and by two evaluations of one request
C9_Witness ==
    /\ \E a, b \in mcSeen :
           /\ SameInputs(a, b)
           /\ a.before # b.before
           /\ a.price = b.price
           /\ a.price > 0
    /\ \E i, j \in DOMAIN evalLog : i < j /\ SameInputs(evalLog[i], evalLog[j])

----------------------------------------------------------------------------
(* Price evaluations run by concurrent workers (C10).  np.random.seed and     *)
(* np.random.standard_normal act on the one generator of the process; each is  *)
(* one step of the worker that calls it.                                       *)

\* line 29: a worker enters _calculate_price
Enter(w) ==
    /\ pc[w] = "idle"
    /\ \E params \in SimulationContracts, sims \in SimulationCounts :
           /\ wparams' = [wparams EXCEPT ![w] = params]
           /\ wsims' = [wsims EXCEPT ![w] = sims]
    /\ pc' = [pc EXCEPT ![w] = "seed"]
    /\ wz' = [wz EXCEPT ![w] = <<>>]
    /\ wprice' = [wprice EXCEPT ![w] = 0]
    /\ UNCHANGED <<np_random, request, response, invoked, failed, evalLog, mcSeen>>

\* line 32: np.random.seed(seed)
Seed(w) ==
    /\ pc[w] = "seed"
    /\ np_random' = np_random_seed(SEED)
    /\ pc' = [pc EXCEPT ![w] = "draw"]
    /\ UNCHANGED <<request, response, invoked, failed, evalLog, mcSeen, wparams,
                   wsims, wz, wprice>>

\* line 42: z = np.random.standard_normal(simulations)
Draw(w) ==
    /\ pc[w] = "draw"
    /\ wz' = [wz EXCEPT ![w] = standard_normal(np_random, wsims[w]).z]
    /\ np_random' = standard_normal(np_random, wsims[w]).state
    /\ pc' = [pc EXCEPT ![w] = "price"]
    /\ UNCHANGED <<request, response, invoked, failed, evalLog, mcSeen, wparams,
                   wsims, wprice>>

\* lines 45-56: the price of the draws
Price(w) ==
    /\ pc[w] = "price"
    /\ wprice' = [wprice EXCEPT ![w] =
                      MonteCarlo_price_from_draws(wparams[w], wsims[w], wz[w])]
    /\ pc' = [pc EXCEPT ![w] = "done"]
    /\ UNCHANGED <<np_random, request, response, invoked, failed, evalLog, mcSeen,
                   wparams, wsims, wz>>

\* the caller has taken the price
Leave(w) ==
    /\ pc[w] = "done"
    /\ pc' = [pc EXCEPT ![w] = "idle"]
    /\ UNCHANGED <<np_random, request, response, invoked, failed, evalLog, mcSeen,
                   wparams, wsims, wz, wprice>>

NextPar == \E w \in Workers : Enter(w) \/ Seed(w) \/ Draw(w) \/ Price(w) \/ Leave(w)

SpecPar == Init /\ [][NextPar]_vars

\* the draws and the price of an evaluation that runs alone
AloneDraws(w) == standard_normal(np_random_seed(SEED), wsims[w]).z
AlonePrice(w) == MonteCarlo_price_from_draws(wparams[w], wsims[w], AloneDraws(w))

\* C10 as stated: however the workers interleave, an evaluation draws the
\* sequence seed 42 determines and returns the price it returns alone.
C10_ParallelSafe ==
    \A w \in Workers :
        /\ pc[w] \in {"price", "done"} => wz[w] = AloneDraws(w)
        /\ pc[w] = "done" => wprice[w] = AlonePrice(w)

----------------------------------------------------------------------------
(* Contract immutability (C11) *)

Fields ==
    {"spot_price", "strike_price", "time_to_expiry", "risk_free_rate",
     "dividend_yield", "volatility", "option_type"}

\* contract a equals contract b in every field outside `bumped`
SameOutside(a, b, bumped) == \A f \in Fields \ bumped : a[f] = b[f]

\* the field a Monte Carlo evaluation of calculate may differ in: the timed and
\* the base price in none, then spot up, spot down, time, volatility, rate
BumpedField(i) ==
    CASE i \in {1, 2} -> {}
      [] i \in {3, 4} -> {"spot_price"}
      [] i = 5 -> {"time_to_expiry"}
      [] i = 6 -> {"volatility"}
      [] i = 7 -> {"risk_free_rate"}

\* one contract was handed to the models (a heatmap makes one per cell)
OneContract == request.endpoint \in {"price", "price_handler", "greeks", "all_models"}

BinomialResults ==
    {i \in DOMAIN response.results : response.results[i].model_name = "Binomial Tree"}

\* the binomial Greeks of a contract whose bumps are taken from the contract
\* as the caller gave it
BinomialGreeksOf(params, steps) ==
    GreeksFromPrices(params,
        << BinomialTree_calculate_price(params, steps),
           BinomialTree_calculate_price(ParamsUp(params), steps),
           BinomialTree_calculate_price(ParamsDown(params), steps),
           BinomialTree_calculate_price(ParamsTheta(params), steps),
           BinomialTree_calculate_price(ParamsVega(params), steps),
           BinomialTree_calculate_price(ParamsRho(params), steps) >>).greeks

\* C11: no operation changes the contract it is given.  The caller's object
\* has its field values after a Greeks call; the Monte Carlo model, which runs
\* after the binomial model, is handed the contract of the request; every
\* bumped evaluation sees the request's contract changed in the one bumped
\* field only; the binomial Greeks are those of bumps of the unchanged contract.
C11_ContractImmutability ==
    OneContract =>
        /\ ParamsAfterGreeks(GivenContract) = GivenContract
        /\ BinomialTree_params_after(GivenContract, request.binomial_steps)
               = GivenContract
        /\ \A i \in DOMAIN evalLog :
               SameOutside(evalLog[i].params, GivenContract, BumpedField(i))
        /\ \A i \in BinomialResults :
               response.results[i].greeks =
                   BinomialGreeksOf(GivenContract, response.results[i].parameters)

\* a multi-model run in which the binomial and the Monte Carlo model both
\* returned, and each of the five bumps changed its field
C11_Witness ==
    /\ request.endpoint = "all_models"
    /\ BinomialResults # {}
    /\ Len(evalLog) = 7
    /\ evalLog[1].params = request.params
    /\ \A i \in 3..7 : \E f \in BumpedField(i) : evalLog[i].params[f] # request.params[f]

----------------------------------------------------------------------------
(* Validation over a grid of contracts (C12) *)

GridContracts ==
    { OptionParameters(S, 10 * FP, T, r, q, sigma, type) :
        S \in {-FP, 10 * FP}, T \in {0, FP, 11 * FP}, r \in {-10, 50},
        q \in {-100, 0, 20}, sigma \in {0, 200, 6 * FP},
        type \in {"call", "PUT", "straddle"} }

\* pricing_engine.validate_parameters called on its own
ValidateCall ==
    \E params \in GridContracts :
        Commit(Req("validate", params, "", 0, 0, <<>>, <<>>, 0),
               Handled(Response(0, "none", <<>>, EmptyMetrics,
                                validate_parameters(params), <<>>),
                       np_random, <<>>, <<>>, <<>>))

\* GET /greeks, whose parameters no request model constrains
GridGreeksRequest ==
    \E params \in GridContracts :
        Commit(Req("greeks", params, "binomial", 0, 0, <<>>, <<>>, 0),
               calculate_greeks(np_random, params, "binomial", 4))

NextValidation ==
    \/ ValidateCall
    \/ GridGreeksRequest

SpecValidation == Init /\ [][NextValidation]_vars

\* the constraints the contract's fields carry, without dividend_yield's
ConformsButDividend(params) ==
    /\ params.spot_price > 0
    /\ params.strike_price > 0
    /\ params.time_to_expiry > 0
    /\ params.volatility > 0
    /\ Lower(params.option_type) \in {"call", "put"}
    /\ params.time_to_expiry <= 10 * FP
    /\ params.volatility <= 5 * FP

Validated == request.endpoint \in {"validate", "greeks"}

\* C12 as stated: the violation sequence is empty exactly when every
\* constraint holds, dividend_yield >= 0 among them; a contract with
\* dividend_yield < 0 has a violation and no model runs on it; the sign of
\* risk_free_rate never matters.
C12_ValidationComplete ==
    Validated =>
        /\ (response.validation_errors = <<>>) <=>
               (ConformsButDividend(request.params)
                    /\ request.params.dividend_yield >= 0)
        /\ request.params.dividend_yield < 0 =>
               (response.validation_errors # <<>> /\ invoked = <<>>)

\* what validate_parameters does: dividend_yield is not looked at
ValidationIgnoresDividend ==
    Validated =>
        (response.validation_errors = <<>>) <=> ConformsButDividend(request.params)

----------------------------------------------------------------------------
(* Exceptions leaving the engine (C13) *)

\* the request went through calculate_single_model
SingleModelPath == request.endpoint \in {"greeks", "heatmap"}

\* C13 as stated, for the two numerical models: on the single-model paths the
\* only exception calculate_single_model raises to the handler is UnknownModel;
\* a failure inside a model does not leave the engine as the raw exception.
C13_NoRawEngineExceptions ==
    SingleModelPath =>
        \A i \in DOMAIN failed :
            failed[i][1] \in {"binomial", "monte_carlo"} =>
                failed[i][2] = "UnknownModel"

\* what the code does: the model's exception reaches the handler as raised, and
\* the handler turns it into an HTTP error (400 for a ValueError on /greeks and
\* for anything on /heatmap, 500 otherwise); no result is returned
RawExceptionBecomesHttpError ==
    (SingleModelPath /\ failed # <<>>) =>
        /\ response.exc = failed[Len(failed)][2]
        /\ response.status \in {400, 500}
        /\ response.body = <<>>

----------------------------------------------------------------------------
(* Put-call parity of the Black-Scholes price (C14) *)

ParityContracts ==
    { OptionParameters(S, K, T, r, q, sigma, "call") :
        S \in {8 * FP, 10 * FP, 12 * FP}, K \in {10 * FP, 11 * FP},
        T \in {250, FP, 2 * FP}, r \in {-10, 50}, q \in {0, 20},
        sigma \in {200, 400, 2 * FP} }

AsPut(params) == [params EXCEPT !.option_type = "put"]

\* _calculate_price_and_greeks called on a contract as a call and as a put; the
\* two prices are kept in the body of the response
BlackScholesPricePair ==
    \E params \in ParityContracts :
        Commit(Req("parity", params, "black_scholes", 0, 0, <<>>, <<>>, 0),
               Handled(Response(0, BlackScholes_calculate_price_and_greeks(params),
                                <<>>, EmptyMetrics, <<>>,
                                <<BlackScholes_price(params),
                                  BlackScholes_price(AsPut(params))>>),
                       np_random, <<>>, <<>>, <<>>))

NextParity == BlackScholesPricePair

SpecParity == Init /\ [][NextParity]_vars

\* S * e^(-qT) - K * e^(-rT), in ticks
ParityGap(params) ==
    (DiscountedSpot(params) - DiscountedStrike(params)) * FP * TicksPerMicro

----------------------------------------------------------------------------
(* The contracts of the finite-difference evaluations (C15) *)

\* valid contracts, the short-dated ones around dt = 1/365
BumpContracts ==
    { OptionParameters(10 * FP, 10 * FP, T, 50, 0, 200, type) :
        T \in {1, DT, DT + 1, 2 * DT, 2 * DT + 1, FP}, type \in {"call", "put"} }

NumericalModels == {"binomial", "monte_carlo"}

\* GET /greeks for a numerical model (default step and path counts)
BumpGreeksRequest ==
    \E params \in BumpContracts, model \in NumericalModels :
        Commit(Req("greeks", params, model, default_steps, default_simulations,
                   <<>>, <<>>, 0),
               calculate_greeks(np_random, params, model, 4))

\* pricing_engine.calculate_single_model called with a step / path count
BumpSingleModelCall ==
    \E params \in BumpContracts, model \in NumericalModels, steps \in StepCounts,
       sims \in SimulationCounts :
        Commit(Req("single_model", params, model, steps, sims, <<>>, <<>>, 0),
               GreeksResponse(
                   calculate_single_model(np_random, model, params,
                       [steps |-> steps, simulations |-> sims], 4),
                   model))

NextBumps ==
    \/ BumpGreeksRequest
    \/ BumpSingleModelCall

SpecBumps == Init /\ [][NextBumps]_vars

\* a Greeks computation by a numerical model on a contract without messages
BumpRun ==
    /\ request.endpoint \in {"greeks", "single_model"}
    /\ request.model \in NumericalModels
    /\ validate_parameters(request.params) = <<>>

\* the time_to_expiry the theta evaluation was given: the one recorded for
\* Monte Carlo, the one of the method's fourth contract for the binomial model
ThetaTimes ==
    IF request.model = "monte_carlo"
    THEN {evalLog[i].params.time_to_expiry : i \in DOMAIN evalLog \cap {5}}
    ELSE {FiniteDiffContracts(request.params)[4].time_to_expiry}

\* the request succeeded, every evaluation was handed a contract with positive
\* spot, volatility and time and the path count of the call, and theta is the
\* price at the bumped time minus the base price
BumpsWellFormed ==
    /\ response.status = 200
    /\ request.model = "monte_carlo" =>
           /\ Len(evalLog) = 7
           /\ \A i \in DOMAIN evalLog :
                  /\ evalLog[i].params.spot_price > 0
                  /\ evalLog[i].params.volatility > 0
                  /\ evalLog[i].params.time_to_expiry > 0
                  /\ evalLog[i].simulations = request.monte_carlo_simulations
           /\ evalLog[3].params.spot_price =
                  request.params.spot_price + request.params.spot_price \div 100
           /\ evalLog[4].params.spot_price =
                  request.params.spot_price - request.params.spot_price \div 100
           /\ evalLog[6].params.volatility = request.params.volatility + DV
           /\ evalLog[7].params.risk_free_rate = request.params.risk_free_rate + DV
           /\ response.body.greeks.theta =
                  (evalLog[5].price - evalLog[2].price) \div TicksPerMicro
    /\ request.model = "binomial" =>
           /\ \A i \in 1..6 :
                  /\ FiniteDiffContracts(request.params)[i].spot_price > 0
                  /\ FiniteDiffContracts(request.params)[i].volatility > 0
                  /\ FiniteDiffContracts(request.params)[i].time_to_expiry > 0
           /\ response.body.greeks =
                  BinomialGreeksOf(request.params, request.binomial_steps)
           /\ response.body.greeks.theta =
                  (BinomialTree_calculate_price(FiniteDiffContracts(request.params)[4],
                                                request.binomial_steps).price
                     - BinomialTree_calculate_price(request.params,
                                                    request.binomial_steps).price)
                  \div TicksPerMicro

\* C15 as stated: the bumps are well formed and the theta evaluation is handed
\* the time T - 1/365, which is never larger than T.
C15_ThetaShrinksTime ==
    BumpRun =>
        /\ BumpsWellFormed
        /\ \A t \in ThetaTimes :
               /\ t = request.params.time_to_expiry - DT
               /\ t <= request.params.time_to_expiry

\* C15 amended: the bumps are well formed and the theta evaluation is handed
\* the time max(T - 1/365, 1/365): T - 1/365 from T = 2/365 on, and 1/365
\* below, which is larger than T when T < 1/365.
C15_ThetaClampedTime ==
    BumpRun =>
        /\ BumpsWellFormed
        /\ ThetaTimes # {}
        /\ \A t \in ThetaTimes :
               /\ t > 0
               /\ request.params.time_to_expiry >= 2 * DT
                      => t = request.params.time_to_expiry - DT
               /\ request.params.time_to_expiry < 2 * DT => t = DT
               /\ request.params.time_to_expiry < DT
                      => t > request.params.time_to_expiry

\* a Monte Carlo Greeks run on a contract with less than a day to expiry: theta
\* was priced at one day, later than the contract's own expiry
C15_Witness ==
    /\ BumpRun
    /\ request.model = "monte_carlo"
    /\ request.params.time_to_expiry < DT
    /\ Len(evalLog) = 7
    /\ evalLog[5].params.time_to_expiry = DT
    /\ response.status = 200

----------------------------------------------------------------------------
(* Common random numbers (C16) *)

\* a Monte Carlo calculate that returned: the timed price, the base price of
\* the Greeks and the five bumped prices
SimulationRun ==
    /\ BumpRun
    /\ request.model = "monte_carlo"
    /\ response.status = 200

\* the N normals that follow np.random.seed(42)
SeededDraws(n) == standard_normal(np_random_seed(SEED), n).z

\* C16: every price evaluation of one calculate call draws the N normals that
\* follow a reseed to 42, whatever state the generator was found in, so all
\* seven evaluations use the same draws; the price of the PricingResult is the
\* base price the Greeks are differences from.
C16_CommonRandomNumbers ==
    SimulationRun =>
        /\ Len(evalLog) = 7
        /\ \A i \in DOMAIN evalLog :
               /\ Len(evalLog[i].z) = request.monte_carlo_simulations
               /\ evalLog[i].z = SeededDraws(request.monte_carlo_simulations)
        /\ evalLog[1].params = evalLog[2].params
        /\ evalLog[1].price = evalLog[2].price
        /\ response.body.price = RoundHalfEven(evalLog[2].price, TicksPerMicro)
        /\ response.body.greeks =
               FiniteDifferences(request.params, evalLog[2].price, evalLog[3].price,
                                 evalLog[4].price, evalLog[5].price, evalLog[6].price,
                                 evalLog[7].price)

\* a run whose seven evaluations share their draws and whose spot bumps moved
\* the price on them
C16_Witness ==
    /\ SimulationRun
    /\ Len(evalLog) = 7
    /\ evalLog[7].z = evalLog[1].z
    /\ evalLog[1].z # <<>>
    /\ evalLog[3].price > evalLog[4].price
    /\ evalLog[1].price = evalLog[2].price
    /\ evalLog[1].price > 0

====
